---- MODULE Spec2Model ----
(***************************************************************************)
(* Model of lib/blkid/devname.c (e2fsprogs libblkid): the device cache,    *)
(* blkid_get_dev, probe_one, the device-mapper, EVMS, LVM and              *)
(* /proc/partitions probers, probe_all and its two public entry points.    *)
(*                                                                         *)
(* Strings are sequences of one-character strings, so that strcmp,         *)
(* strncmp, isdigit and sprintf act on characters.  A pointer to a device  *)
(* record is its position in the cache list, 0 standing for NULL.          *)
(***************************************************************************)
EXTENDS Integers, Sequences, FiniteSets, TLC

VARIABLES
    bic_devs,        \* cache->bic_devs: the list of device records
    bic_flags,       \* cache->bic_flags, a subset of {"CHANGED", "PROBED"}
    bic_time,        \* cache->bic_time
    now,             \* what time(0) returns
    HAVE_DEVMAPPER,  \* whether the build defines HAVE_DEVMAPPER
    dm,              \* the device-mapper devices the kernel lists
    nodes,           \* the device nodes of the file system
    evms,            \* /proc/evms/volumes
    lvm,             \* /proc/lvm/VGs
    proc,            \* /proc/partitions
    op,              \* the operation the last step performed
    args,            \* its arguments
    ret,             \* its return value
    calls            \* the collaborators and probe_one calls it made, in order

vars == <<bic_devs, bic_flags, bic_time, now, HAVE_DEVMAPPER, dm, nodes,
          evms, lvm, proc, op, args, ret, calls>>

cachevars == <<bic_devs, bic_flags, bic_time>>
envvars == <<HAVE_DEVMAPPER, dm, nodes, evms, lvm, proc>>

----------------------------------------------------------------------------
(* Bounds *)

MaxTime == 3
MaxLines == 3
MaxDm == 2

----------------------------------------------------------------------------
(* Characters and <string.h> / <ctype.h> *)

Digits == {"0", "1", "2", "3", "4", "5", "6", "7", "8", "9"}

isdigit(ch) == ch \in Digits

Min(a, b) == IF a < b THEN a ELSE b

\* the first n characters of s (all of s when it is shorter)
Take(s, n) == SubSeq(s, 1, Min(n, Len(s)))

\* strcmp(a, b) != 0
strcmp(a, b) == a # b

\* strncmp(a, b, n) != 0
strncmp(a, b, n) == Take(a, n) # Take(b, n)

\* makedev(ma, mi) for the small majors and minors used here
makedev(ma, mi) == ma * 256 + mi

----------------------------------------------------------------------------
(* Constants of blkid.h and blkidP.h *)

BLKID_DEV_CREATE == "CREATE"
BLKID_DEV_VERIFY == "VERIFY"
BLKID_DEV_FIND == {}
BLKID_DEV_NORMAL == {BLKID_DEV_CREATE, BLKID_DEV_VERIFY}

BLKID_BIC_FL_PROBED == "PROBED"
BLKID_BIC_FL_CHANGED == "CHANGED"

BLKID_PRI_DM == 40
BLKID_PRI_EVMS == 30
BLKID_PRI_LVM == 20
BLKID_PRI_MD == 10

BLKID_ERR_PROC == 9

BLKID_PROBE_INTERVAL == 2

----------------------------------------------------------------------------
(* Names *)

MD == <<"m", "d">>
sda == <<"s", "d", "a">>
sda1 == <<"s", "d", "a", "1">>
sda2 == <<"s", "d", "a", "2">>
sda5 == <<"s", "d", "a", "5">>
sdaa == <<"s", "d", "a", "a">>
sdb == <<"s", "d", "b">>
sdb1 == <<"s", "d", "b", "1">>
md0 == <<"m", "d", "0">>
dm0 == <<"d", "m", "-", "0">>
mapper == <<"m", "a", "p", "p", "e", "r", "/">>
mapper_x == mapper \o <<"x">>
vg_lv == <<"v", "g", "/", "l", "v">>

DEV == <<"/", "d", "e", "v">>
DEVFS == <<"/", "d", "e", "v", "f", "s">>

\* blkid_devdirs: the directories searched for a device node, in order
blkid_devdirs == <<DEV, DEVFS>>

\* sprintf(device, "%s/%s", dir, ptname)
DevicePath(dir, ptname) == dir \o <<"/">> \o ptname

NoName == <<>>

----------------------------------------------------------------------------
(* The file system: stat() and the exhaustive search *)

\* stat(device): the st_rdev of the block device at that path, 0 when
\* stat fails or the node is not a block device
stat_rdev(device) ==
    IF \E i \in 1..Len(nodes) : nodes[i].path = device
    THEN nodes[CHOOSE i \in 1..Len(nodes) : nodes[i].path = device].rdev
    ELSE 0

stat_isblk(device) == \E i \in 1..Len(nodes) : nodes[i].path = device

\* blkid_devno_to_devname(devno): the first node found with that number
blkid_devno_to_devname(devno) ==
    IF \E i \in 1..Len(nodes) : nodes[i].rdev = devno
    THEN nodes[CHOOSE i \in 1..Len(nodes) :
                  /\ nodes[i].rdev = devno
                  /\ \A j \in 1..(i - 1) : nodes[j].rdev # devno].path
    ELSE NoName

----------------------------------------------------------------------------
(* The cache *)

\* blkid_new_dev() followed by the assignments of blkid_get_dev
NewDev(devname) == [bid_name |-> devname, bid_devno |-> 0, bid_pri |-> 0]

RemoveAt(s, i) == SubSeq(s, 1, i - 1) \o SubSeq(s, i + 1, Len(s))

\* blkid_verify(cache, dev): NULL for NULL; a recently verified record is
\* returned as it is (fresh); otherwise the record is checked against the
\* node of its name: freed when the node is gone, else given the node's
\* device number.
blkid_verify(c, dev, fresh) ==
    IF dev = 0 THEN [c |-> c, dev |-> 0]
    ELSE IF fresh THEN [c |-> c, dev |-> dev]
    ELSE IF ~stat_isblk(c.devs[dev].bid_name)
         THEN [c |-> [devs |-> RemoveAt(c.devs, dev),
                      flags |-> c.flags \cup {BLKID_BIC_FL_CHANGED}],
               dev |-> 0]
    ELSE IF c.devs[dev].bid_devno = stat_rdev(c.devs[dev].bid_name)
         THEN [c |-> c, dev |-> dev]
    ELSE [c |-> [devs |-> [c.devs EXCEPT ![dev].bid_devno =
                               stat_rdev(c.devs[dev].bid_name)],
                 flags |-> c.flags \cup {BLKID_BIC_FL_CHANGED}],
          dev |-> dev]

\* the list_for_each of blkid_get_dev: the first record of that name
FindName(devs, devname) ==
    IF \E i \in 1..Len(devs) : ~strcmp(devs[i].bid_name, devname)
    THEN CHOOSE i \in 1..Len(devs) :
            /\ ~strcmp(devs[i].bid_name, devname)
            /\ \A j \in 1..(i - 1) : strcmp(devs[j].bid_name, devname)
    ELSE 0

\* a plausible slip: the record is appended without looking for the name
get_dev_always_append(c, devname, flags, fresh) ==
    LET made == [devs |-> Append(c.devs, NewDev(devname)),
                 flags |-> c.flags \cup {BLKID_BIC_FL_CHANGED}]
    IN  IF BLKID_DEV_CREATE \in flags
        THEN [c |-> made, dev |-> Len(made.devs)]
        ELSE [c |-> c, dev |-> FindName(c.devs, devname)]

\* a plausible slip: a name that is not found is created whatever the flags
get_dev_create_always(c, devname, flags, fresh) ==
    LET found == FindName(c.devs, devname)
        made == [devs |-> Append(c.devs, NewDev(devname)),
                 flags |-> c.flags \cup {BLKID_BIC_FL_CHANGED}]
        r == IF found = 0
             THEN [c |-> made, dev |-> Len(made.devs)]
             ELSE [c |-> c, dev |-> found]
    IN  IF BLKID_DEV_VERIFY \in flags
        THEN blkid_verify(r.c, r.dev, fresh)
        ELSE r

blkid_get_dev(c, devname, flags, fresh) ==
    LET found == FindName(c.devs, devname)
        made == [devs |-> Append(c.devs, NewDev(devname)),
                 flags |-> c.flags \cup {BLKID_BIC_FL_CHANGED}]
        r == IF found = 0 /\ BLKID_DEV_CREATE \in flags
             THEN [c |-> made, dev |-> Len(made.devs)]
             ELSE [c |-> c, dev |-> found]
    IN  IF BLKID_DEV_VERIFY \in flags
        THEN blkid_verify(r.c, r.dev, fresh)
        ELSE r

----------------------------------------------------------------------------
(* device-mapper *)

\* dm_device_has_dep(dev, name), name being the i-th listed device
dm_device_has_dep(dev, i) ==
    IF ~dm[i].exists THEN FALSE
    ELSE IF dm[i].deps = {} THEN FALSE
    ELSE dev \in dm[i].deps

\* a plausible slip: ret is assigned from every name, so the last one decides
dm_device_is_leaf_last(dev) ==
    IF Len(dm) = 0 THEN TRUE
    ELSE ~dm_device_has_dep(dev, Len(dm))

dm_device_is_leaf(dev) ==
    IF Len(dm) = 0 THEN TRUE
    ELSE ~ \E i \in 1..Len(dm) : dm_device_has_dep(dev, i)

\* dm_get_devno(name), name being the i-th listed device
dm_get_devno(i) ==
    IF ~dm[i].exists THEN 0 ELSE makedev(dm[i].major, dm[i].minor)

----------------------------------------------------------------------------
(* probe_one *)

\* lines 102-115: the record the scan for the device number stops at
ScanDevno(devs, devno) ==
    IF HAVE_DEVMAPPER /\ ~dm_device_is_leaf(devno) THEN 0
    ELSE IF \E i \in 1..Len(devs) : devs[i].bid_devno = devno
    THEN CHOOSE i \in 1..Len(devs) :
            /\ devs[i].bid_devno = devno
            /\ \A j \in 1..(i - 1) : devs[j].bid_devno # devno
    ELSE 0

\* lines 125-139, from the d-th directory on: the record adopted (adopt),
\* or the path whose node has the device number (devname)
RECURSIVE DirLoop(_, _, _, _)
DirLoop(devs, ptname, devno, d) ==
    IF d > Len(blkid_devdirs) THEN [adopt |-> 0, devname |-> NoName]
    ELSE LET device == DevicePath(blkid_devdirs[d], ptname)
             dev == FindName(devs, device)
         IN  IF dev # 0 /\ devs[dev].bid_devno = devno
             THEN [adopt |-> dev, devname |-> NoName]
             ELSE IF stat_isblk(device) /\ stat_rdev(device) = devno
             THEN [adopt |-> 0, devname |-> device]
             ELSE DirLoop(devs, ptname, devno, d + 1)

\* a plausible slip: the RAID priority replaces every hint
set_pri_md_always(c, dev, ptname, pri) ==
    LET p == IF ~strncmp(ptname, MD, 2) THEN BLKID_PRI_MD ELSE pri
    IN  [c |-> IF dev # 0
               THEN [c EXCEPT !.devs[dev].bid_pri = p]
               ELSE c,
         dev |-> dev, pri |-> p, how |-> "set_pri"]

\* lines 148-153
set_pri(c, dev, ptname, pri) ==
    LET p == IF pri = 0 /\ ~strncmp(ptname, MD, 2) THEN BLKID_PRI_MD ELSE pri
    IN  [c |-> IF dev # 0
               THEN [c EXCEPT !.devs[dev].bid_pri = p]
               ELSE c,
         dev |-> dev, pri |-> p, how |-> "set_pri"]

\* line 145: the record of the resolved name
probe_one_got(g, ptname, pri) == set_pri(g.c, g.dev, ptname, pri)

\* lines 140-146: devname is the path the directory loop found, if any
probe_one_named(c, devname, ptname, pri, fresh) ==
    IF devname = NoName
    THEN [c |-> c, dev |-> 0, pri |-> pri, how |-> "noname"]
    ELSE probe_one_got(blkid_get_dev(c, devname, BLKID_DEV_NORMAL, fresh),
                       ptname, pri)

\* lines 125-144: d is the outcome of the directory loop
probe_one_dirs(c, d, ptname, devno, pri, fresh) ==
    IF d.adopt # 0 THEN set_pri(c, d.adopt, ptname, pri)
    ELSE probe_one_named(c,
                         IF d.devname # NoName THEN d.devname
                         ELSE blkid_devno_to_devname(devno),
                         ptname, pri, fresh)

\* lines 116-117: v is what blkid_verify returned for the record of the scan
probe_one_verified(v, ptname, devno, pri, fresh) ==
    IF v.dev # 0 /\ v.c.devs[v.dev].bid_devno = devno
    THEN set_pri(v.c, v.dev, ptname, pri)
    ELSE probe_one_dirs(v.c, DirLoop(v.c.devs, ptname, devno, 1),
                        ptname, devno, pri, fresh)

\* lines 109-114: hit is the record the scan stopped at
probe_one_hit(c, hit, ptname, devno, pri, only_if_new, fresh) ==
    IF hit # 0 /\ only_if_new
    THEN [c |-> c, dev |-> 0, pri |-> pri, how |-> "known"]
    ELSE probe_one_verified(blkid_verify(c, hit, fresh),
                            ptname, devno, pri, fresh)

probe_one(c, ptname, devno, pri, only_if_new, fresh) ==
    probe_one_hit(c, ScanDevno(c.devs, devno), ptname, devno, pri,
                  only_if_new, fresh)

----------------------------------------------------------------------------
(* What an operation did: the calls it made, in order *)

Event(ev, src, name, devno, pri, line, how) ==
    [ev |-> ev, src |-> src, name |-> name, devno |-> devno, pri |-> pri,
     line |-> line, how |-> how]

Note(S, ev) == [S EXCEPT !.log = Append(@, Event(ev, "", NoName, 0, 0, 0, ""))]

\* the call of probe_one that returned r, added to the log
Logged(S, r, src, ptname, devno, pri, line) ==
    [c |-> r.c,
     log |-> Append(S.log, Event("probe_one", src, ptname, devno, pri,
                                 line, r.how))]

\* a call of probe_one by the prober src (for line number line of its input)
Probe(S, src, ptname, devno, pri, only_if_new, fresh, line) ==
    Logged(S, probe_one(S.c, ptname, devno, pri, only_if_new, fresh),
           src, ptname, devno, pri, line)

\* blkid_read_cache(cache) and blkid_flush_cache(cache): the persistence
\* collaborators; the cache file is /dev/null
blkid_read_cache(S) == Note(S, "read_cache")

\* a write-back that succeeded (saved) leaves nothing to write back; one
\* that failed leaves the cache as it was
blkid_flush_cache(S, saved) ==
    Note([c |-> [devs |-> S.c.devs,
                 flags |-> IF saved
                           THEN S.c.flags \ {BLKID_BIC_FL_CHANGED}
                           ELSE S.c.flags],
          log |-> S.log],
         "flush_cache")

----------------------------------------------------------------------------
(* Text input: a line is a sequence of whitespace-separated tokens *)

Num(n) == [isnum |-> TRUE, n |-> n, w |-> NoName]
Word(w) == [isnum |-> FALSE, n |-> 0, w |-> w]

\* the number of leading tokens that convert with %d
RECURSIVE LeadingNums(_, _)
LeadingNums(line, k) ==
    IF k > Len(line) \/ ~line[k].isnum THEN k - 1
    ELSE LeadingNums(line, k + 1)

----------------------------------------------------------------------------
(* dm_probe_all *)

RECURSIVE dm_loop(_, _, _, _)
dm_loop(S, i, only_if_new, fresh) ==
    IF i > Len(dm) THEN S
    ELSE LET device == mapper \o dm[i].name
             dev == dm_get_devno(i)
         IN  IF dev = 0 THEN dm_loop(S, i + 1, only_if_new, fresh)
             ELSE IF ~dm_device_is_leaf(dev)
             THEN dm_loop(S, i + 1, only_if_new, fresh)
             ELSE dm_loop(Probe(S, "dm", device, dev, BLKID_PRI_DM,
                                only_if_new, fresh, i),
                          i + 1, only_if_new, fresh)

dm_probe_all(S, only_if_new, fresh) ==
    IF Len(dm) = 0 THEN S ELSE dm_loop(S, 1, only_if_new, fresh)

----------------------------------------------------------------------------
(* evms_probe_all *)

\* sscanf(line, " %d %d %d %*s %*s %[^\n ]", &ma, &mi, &sz, device) == 4
evms_scan(line) ==
    /\ Len(line) >= 6
    /\ LeadingNums(line, 1) >= 3
    /\ ~line[6].isnum

RECURSIVE evms_loop(_, _, _, _)
evms_loop(S, i, only_if_new, fresh) ==
    IF i > Len(evms.lines) THEN S
    ELSE IF ~evms_scan(evms.lines[i])
    THEN evms_loop(S, i + 1, only_if_new, fresh)
    ELSE LET line == evms.lines[i]
         IN  evms_loop(Probe(S, "evms", line[6].w,
                             makedev(line[1].n, line[2].n), BLKID_PRI_EVMS,
                             only_if_new, fresh, i),
                       i + 1, only_if_new, fresh)

evms_probe_all(S, only_if_new, fresh) ==
    IF ~evms.open THEN S ELSE evms_loop(S, 1, only_if_new, fresh)

----------------------------------------------------------------------------
(* lvm_probe_all *)

DOT == <<".">>
DOTDOT == <<".", ".">>

\* the while loop of lvm_get_devno from line k of the file
RECURSIVE lvm_scan(_, _)
lvm_scan(lines, k) ==
    IF k > Len(lines) THEN 0
    ELSE IF lines[k].isdev THEN makedev(lines[k].ma, lines[k].mi)
    ELSE lvm_scan(lines, k + 1)

lvm_get_devno(file) ==
    IF ~file.open THEN 0 ELSE lvm_scan(file.lines, 1)

\* the inner while loop of lvm_probe_all over the LVs of group g
RECURSIVE lv_loop(_, _, _, _, _)
lv_loop(S, g, k, only_if_new, fresh) ==
    IF k > Len(lvm.vgs[g].lvs) THEN S
    ELSE LET lv == lvm.vgs[g].lvs[k]
         IN  IF ~strcmp(lv.name, DOT) \/ ~strcmp(lv.name, DOTDOT)
             THEN lv_loop(S, g, k + 1, only_if_new, fresh)
             ELSE lv_loop(Probe(S, "lvm",
                                lvm.vgs[g].name \o <<"/">> \o lv.name,
                                lvm_get_devno(lv.file), BLKID_PRI_LVM,
                                only_if_new, fresh, k),
                          g, k + 1, only_if_new, fresh)

RECURSIVE vg_loop(_, _, _, _)
vg_loop(S, g, only_if_new, fresh) ==
    IF g > Len(lvm.vgs) THEN S
    ELSE IF ~strcmp(lvm.vgs[g].name, DOT) \/ ~strcmp(lvm.vgs[g].name, DOTDOT)
    THEN vg_loop(S, g + 1, only_if_new, fresh)
    ELSE IF ~lvm.vgs[g].open
    THEN vg_loop(S, g + 1, only_if_new, fresh)
    ELSE vg_loop(lv_loop(S, g, 1, only_if_new, fresh),
                 g + 1, only_if_new, fresh)

lvm_probe_all(S, only_if_new, fresh) ==
    IF ~lvm.open THEN S ELSE vg_loop(S, 1, only_if_new, fresh)

----------------------------------------------------------------------------
(* probe_all: the /proc/partitions loop *)

\* sscanf(line, " %d %d %llu %128[^\n ]", &ma, &mi, &sz, ptname) == 4
part_scan(line) ==
    /\ Len(line) >= 4
    /\ LeadingNums(line, 1) >= 3
    /\ ~line[4].isnum

Other(which) == 1 - which

\* the state of the loop: which and last index the two slots 0 and 1 of
\* ptnames, devs and lens
LoopInit(S) ==
    [S |-> S, which |-> 0, last |-> 0,
     ptnames |-> [w \in {0, 1} |-> NoName],
     devs |-> [w \in {0, 1} |-> 0],
     lens |-> [w \in {0, 1} |-> 0],
     from |-> [w \in {0, 1} |-> 0]]

\* line 507: the name ends in a digit
is_partition(ptname) == isdigit(ptname[Len(ptname)])

\* a plausible slip: only the size 1 is left out
size_probed_not_one(sz) == sz # 1

\* line 512: the size test of a partition-shaped line
size_probed(sz) == sz > 1

\* a plausible slip: the slot of the partition itself is left pending
clear_lens_last_only(lens, which, last) == [lens EXCEPT ![last] = 0]

\* lines 515-516: a partition-shaped line marks both slots as handled
clear_lens(lens, which, last) == [lens EXCEPT ![which] = 0, ![last] = 0]

\* a plausible slip: the sense of the comparison is inverted
is_other_disk_inverted(lens, ptnames, last, ptname) ==
    lens[last] # 0 /\ ~strncmp(ptnames[last], ptname, lens[last])

\* lines 517-518: the pending name is not a prefix of the current one
is_other_disk(lens, ptnames, last, ptname) ==
    lens[last] # 0 /\ strncmp(ptnames[last], ptname, lens[last])

\* lines 491 and 506: the line is stored in slot which; from[which]
\* remembers the number of the line
Stored(L, which, last, line, i) ==
    [L EXCEPT !.last = last, !.which = which,
              !.ptnames[which] = line[4].w,
              !.devs[which] = makedev(line[1].n, line[2].n),
              !.from[which] = i,
              !.lens[which] = Len(line[4].w)]

\* lines 507-525: the two branches, U being the loop state with the line
\* stored
part_line_parsed(U, ptname, sz, which, last, i, only_if_new, fresh) ==
    IF is_partition(ptname)
    THEN [U EXCEPT !.S = IF size_probed(sz)
                         THEN Probe(U.S, "part", ptname, U.devs[which], 0,
                                    only_if_new, fresh, i)
                         ELSE U.S,
                   !.lens = clear_lens(U.lens, which, last)]
    ELSE IF is_other_disk(U.lens, U.ptnames, last, ptname)
    THEN [U EXCEPT !.S = Probe(U.S, "part", U.ptnames[last], U.devs[last],
                               0, only_if_new, fresh, U.from[last]),
                   !.lens[last] = 0]
    ELSE U

\* lines 484-490: last and which are set before the line is scanned
part_line_at(L, line, i, which, last, only_if_new, fresh) ==
    IF ~part_scan(line) THEN [L EXCEPT !.last = last, !.which = which]
    ELSE part_line_parsed(Stored(L, which, last, line, i), line[4].w,
                          line[3].n, which, last, i, only_if_new, fresh)

\* lines 484-525: one iteration of the while loop, on the i-th line
part_line(L, line, i, only_if_new, fresh) ==
    part_line_at(L, line, i, Other(L.which), L.which, only_if_new, fresh)

\* lines 483-526: the while loop over the lines that fgets returns
RECURSIVE part_loop_on(_, _, _, _, _)
part_loop_on(lines, L, i, only_if_new, fresh) ==
    IF i > Len(lines) THEN L
    ELSE part_loop_on(lines,
                      part_line(L, lines[i], i, only_if_new, fresh),
                      i + 1, only_if_new, fresh)

part_loop(L, i, only_if_new, fresh) ==
    part_loop_on(proc.lines, L, i, only_if_new, fresh)

\* lines 528-530: the last device, if it was not partitioned
part_end(L, only_if_new, fresh) ==
    IF L.lens[L.which] # 0
    THEN Probe(L.S, "part", L.ptnames[L.which], L.devs[L.which], 0,
               only_if_new, fresh, L.from[L.which])
    ELSE L.S

----------------------------------------------------------------------------
(* probe_all and the entry points *)

\* a plausible slip: the window is one tick too short
Fresh_short(flags, time) ==
    BLKID_BIC_FL_PROBED \in flags /\ now - time < BLKID_PROBE_INTERVAL - 1

\* a plausible slip: the test is made for the incremental entry point only
Fresh_forced(flags, time) == FALSE

\* the staleness test of lines 466-467
Fresh(flags, time) ==
    BLKID_BIC_FL_PROBED \in flags /\ now - time < BLKID_PROBE_INTERVAL

\* a plausible slip: the failure to open /proc/partitions is swallowed
proc_failed_swallowed(S) == [c |-> S.c, log |-> S.log, ret |-> 0]

\* a plausible slip: the cache is written back before the error is returned
proc_failed_flushed(S) ==
    [c |-> S.c, log |-> blkid_flush_cache(S, FALSE).log,
     ret |-> 0 - BLKID_ERR_PROC]

\* lines 479-481: /proc/partitions cannot be opened
proc_failed(S) == [c |-> S.c, log |-> S.log, ret |-> 0 - BLKID_ERR_PROC]

\* lines 532-534
probe_done(S) == [c |-> S.c, log |-> S.log, ret |-> 0]

\* lines 479-534: S is the state the optional probers left
probe_partitions(S, only_if_new, fresh, saved) ==
    IF ~proc.open THEN proc_failed(S)
    ELSE probe_done(blkid_flush_cache(
             part_end(part_loop(LoopInit(S), 1, only_if_new, fresh),
                      only_if_new, fresh),
             saved))

\* lines 471-473
dm_stage(S, only_if_new, fresh) ==
    IF HAVE_DEVMAPPER THEN dm_probe_all(S, only_if_new, fresh) ELSE S

probe_all(c, time, only_if_new, fresh, saved) ==
    IF Fresh(c.flags, time)
    THEN [c |-> c, log |-> << >>, ret |-> 0]
    ELSE probe_partitions(
             lvm_probe_all(
                 evms_probe_all(
                     dm_stage(blkid_read_cache([c |-> c, log |-> << >>]),
                              only_if_new, fresh),
                     only_if_new, fresh),
                 only_if_new, fresh),
             only_if_new, fresh, saved)

Cache == [devs |-> bic_devs, flags |-> bic_flags]

----------------------------------------------------------------------------
(* Inputs *)

Node(path, rdev) == [path |-> path, rdev |-> rdev]

\* the nodes of a system with one disk and one RAID array
Fs1 == << Node(DevicePath(DEV, sda), makedev(8, 0)),
          Node(DevicePath(DEV, md0), makedev(9, 0)) >>

\* the array is stopped: its node is gone
Fs2 == << Node(DevicePath(DEV, sda), makedev(8, 0)) >>

FsConfigs == {Fs1, Fs2}

DmDev(name, exists, major, minor, deps) ==
    [name |-> name, exists |-> exists, major |-> major, minor |-> minor,
     deps |-> deps]

\* no mapped device; one mapped device built on the RAID array
Dm0 == << >>
Dm1 == << DmDev(<<"x">>, TRUE, 253, 0, {makedev(9, 0)}) >>

DmConfigs == {Dm0, Dm1}

NoFile == [open |-> FALSE, lines |-> << >>]
File(lines) == [open |-> TRUE, lines |-> lines]

NoLvm == [open |-> FALSE, vgs |-> << >>]

ShortNames == {sda, md0}
GetNames == {DevicePath(DEV, sda), DevicePath(DEV, md0)}
DevNos == {makedev(8, 0), makedev(9, 0)}
PriHints == {0, BLKID_PRI_EVMS}
FlagSets == {BLKID_DEV_FIND, {BLKID_DEV_CREATE}, BLKID_DEV_NORMAL}

Args(name, devno, pri, only_if_new, flags, fresh) ==
    [name |-> name, devno |-> devno, pri |-> pri,
     only_if_new |-> only_if_new, flags |-> flags, fresh |-> fresh]

NoArgs == Args(NoName, 0, 0, FALSE, {}, FALSE)

----------------------------------------------------------------------------
(* Operations *)

\* the effect of an operation that returned r
Returned(r, name, a, result, log) ==
    /\ bic_devs' = r.c.devs
    /\ bic_flags' = r.c.flags
    /\ op' = name
    /\ args' = a
    /\ ret' = result
    /\ calls' = log

\* a caller's blkid_get_dev(cache, devname, flags)
GetDevReturned(r, devname, flags, fresh) ==
    Returned(r, "blkid_get_dev", Args(devname, 0, 0, FALSE, flags, fresh),
             r.dev,
             << Event("blkid_get_dev", "", devname, 0, 0, 0,
                      IF FindName(bic_devs, devname) # 0
                      THEN "found" ELSE "absent") >>)

Call_blkid_get_dev ==
    \E devname \in GetNames, flags \in FlagSets, fresh \in BOOLEAN :
        /\ GetDevReturned(blkid_get_dev(Cache, devname, flags, fresh),
                          devname, flags, fresh)
        /\ UNCHANGED <<bic_time, now, envvars>>

\* a prober's probe_one(cache, ptname, devno, pri, only_if_new)
ProbeOneReturned(r, ptname, devno, pri, only_if_new, fresh) ==
    Returned(r, "probe_one",
             Args(ptname, devno, pri, only_if_new, {}, fresh), r.dev,
             << Event("probe_one", "", ptname, devno, pri, 0, r.how) >>)

Call_probe_one ==
    \E ptname \in ShortNames, devno \in DevNos, pri \in PriHints,
       only_if_new \in BOOLEAN, fresh \in BOOLEAN :
        /\ ProbeOneReturned(probe_one(Cache, ptname, devno, pri,
                                      only_if_new, fresh),
                            ptname, devno, pri, only_if_new, fresh)
        /\ UNCHANGED <<bic_time, now, envvars>>

\* a caller's blkid_flush_cache(cache)
Call_blkid_flush_cache ==
    \E saved \in BOOLEAN :
        /\ Returned(blkid_flush_cache([c |-> Cache, log |-> << >>], saved),
                    "blkid_flush_cache", NoArgs, 0,
                    << Event("flush_cache", "", NoName, 0, 0, 0,
                             IF saved THEN "saved" ELSE "failed") >>)
        /\ UNCHANGED <<bic_time, now, envvars>>

\* lines 542-546: r is what probe_all(cache, 0) did
ProbeAllReturned(r, fresh) ==
    /\ bic_devs' = r.c.devs
    /\ bic_flags' = r.c.flags \cup {BLKID_BIC_FL_PROBED}
    /\ bic_time' = now
    /\ op' = "blkid_probe_all"
    /\ args' = Args(NoName, 0, 0, FALSE, {}, fresh)
    /\ ret' = r.ret
    /\ calls' = r.log

blkid_probe_all ==
    \E fresh \in BOOLEAN, saved \in BOOLEAN :
        /\ ProbeAllReturned(probe_all(Cache, bic_time, FALSE, fresh, saved),
                            fresh)
        /\ UNCHANGED <<now, envvars>>

\* a plausible slip: the incremental entry point marks the cache as probed
ProbeAllNewReturned_probed(r, fresh) ==
    /\ bic_devs' = r.c.devs
    /\ bic_flags' = r.c.flags \cup {BLKID_BIC_FL_PROBED}
    /\ op' = "blkid_probe_all_new"
    /\ args' = Args(NoName, 0, 0, TRUE, {}, fresh)
    /\ ret' = r.ret
    /\ calls' = r.log

\* lines 554-556: r is what probe_all(cache, 1) did
ProbeAllNewReturned(r, fresh) ==
    Returned(r, "blkid_probe_all_new", Args(NoName, 0, 0, TRUE, {}, fresh),
             r.ret, r.log)

blkid_probe_all_new ==
    \E fresh \in BOOLEAN, saved \in BOOLEAN :
        /\ ProbeAllNewReturned(probe_all(Cache, bic_time, TRUE, fresh,
                                         saved),
                               fresh)
        /\ UNCHANGED <<bic_time, now, envvars>>

\* the clock advances
Tick ==
    /\ now < MaxTime
    /\ now' = now + 1
    /\ op' = "tick"
    /\ args' = NoArgs
    /\ ret' = 0
    /\ calls' = << >>
    /\ UNCHANGED <<cachevars, envvars>>

\* device-mapper devices are created, removed or stacked
SetDm ==
    /\ \E d \in DmConfigs : d # dm /\ dm' = d
    /\ op' = "env"
    /\ args' = NoArgs
    /\ ret' = 0
    /\ calls' = << >>
    /\ UNCHANGED <<cachevars, now, HAVE_DEVMAPPER, nodes, evms, lvm, proc>>

\* device nodes are created or removed
SetNodes ==
    /\ \E n \in FsConfigs : n # nodes /\ nodes' = n
    /\ op' = "env"
    /\ args' = NoArgs
    /\ ret' = 0
    /\ calls' = << >>
    /\ UNCHANGED <<cachevars, now, HAVE_DEVMAPPER, dm, evms, lvm, proc>>

----------------------------------------------------------------------------
(* Specification of the cache operations *)

InitCache ==
    /\ bic_devs = << >>
    /\ bic_flags = {}
    /\ bic_time = 0
    /\ now = 0
    /\ op = "init"
    /\ args = NoArgs
    /\ ret = 0
    /\ calls = << >>

Init ==
    /\ InitCache
    /\ HAVE_DEVMAPPER \in BOOLEAN
    /\ dm \in DmConfigs
    /\ nodes \in FsConfigs
    /\ evms = NoFile
    /\ lvm = NoLvm
    /\ proc = NoFile

Next ==
    \/ Call_blkid_get_dev
    \/ Call_probe_one
    \/ Call_blkid_flush_cache
    \/ SetDm
    \/ SetNodes

Spec == Init /\ [][Next]_vars

----------------------------------------------------------------------------
(* Specification of the probe passes *)

Line(ma, mi, sz, name) == << Num(ma), Num(mi), Num(sz), Word(name) >>

\* the nodes of a system with a partitioned disk, a RAID array, a mapped
\* device and a logical volume
FsPass == << Node(DevicePath(DEV, sda1), makedev(8, 1)),
             Node(DevicePath(DEV, md0), makedev(9, 0)),
             Node(DevicePath(DEV, mapper_x), makedev(253, 0)),
             Node(DevicePath(DEV, vg_lv), makedev(58, 0)) >>

DmPass == << DmDev(<<"x">>, TRUE, 253, 0, {}) >>

\* a volume line and a line too short to be one
EvmsPass == File(<< << Num(9), Num(0), Num(100), Word(<<"a">>),
                       Word(<<"b">>), Word(md0) >>,
                    << Num(9), Num(1), Num(100), Word(md0) >> >>)

DevLine(ma, mi) == [isdev |-> TRUE, ma |-> ma, mi |-> mi]
OtherLine == [isdev |-> FALSE, ma |-> 0, mi |-> 0]

Lv(name, file) == [name |-> name, file |-> file]
Vg(name, open, lvs) == [name |-> name, open |-> open, lvs |-> lvs]

LvmPass == [open |-> TRUE,
            vgs |-> << Vg(DOT, TRUE, << >>),
                       Vg(<<"v", "g">>, TRUE,
                          << Lv(DOTDOT, NoFile),
                             Lv(<<"l", "v">>,
                                File(<< OtherLine, DevLine(58, 0) >>)) >>) >>]

ProcPass == File(<< Line(8, 0, 1000, sda), Line(8, 1, 500, sda1),
                    Line(253, 0, 300, dm0) >>)

Sources(d, e, l, p) == [dm |-> d, evms |-> e, lvm |-> l, proc |-> p]

\* no source at all; /proc/partitions alone; every source; every source
\* but /proc/partitions; every source but one of the optional ones
Scenarios ==
    { Sources(Dm0, NoFile, NoLvm, NoFile),
      Sources(Dm0, NoFile, NoLvm, ProcPass),
      Sources(DmPass, EvmsPass, LvmPass, ProcPass),
      Sources(DmPass, EvmsPass, LvmPass, NoFile),
      Sources(Dm0, EvmsPass, LvmPass, ProcPass),
      Sources(DmPass, NoFile, LvmPass, ProcPass),
      Sources(DmPass, EvmsPass, NoLvm, ProcPass) }

\* a source appears or disappears
SetSources ==
    /\ \E s \in Scenarios :
          /\ <<s.dm, s.evms, s.lvm, s.proc>> # <<dm, evms, lvm, proc>>
          /\ dm' = s.dm /\ evms' = s.evms /\ lvm' = s.lvm /\ proc' = s.proc
    /\ op' = "env"
    /\ args' = NoArgs
    /\ ret' = 0
    /\ calls' = << >>
    /\ UNCHANGED <<cachevars, now, HAVE_DEVMAPPER, nodes>>

InitPass ==
    /\ InitCache
    /\ HAVE_DEVMAPPER \in BOOLEAN
    /\ nodes = FsPass
    /\ \E s \in Scenarios :
          dm = s.dm /\ evms = s.evms /\ lvm = s.lvm /\ proc = s.proc

NextPass == blkid_probe_all \/ blkid_probe_all_new \/ Tick \/ SetSources

SpecPass == InitPass /\ [][NextPass]_vars

----------------------------------------------------------------------------
(* Specification of the /proc/partitions heuristic: every report of up to  *)
(* MaxLines lines                                                          *)

BadLine == << Num(8), Word(sda) >>

PartLines == { Line(8, 0, 1000, sda), Line(8, 1, 500, sda1),
               Line(8, 2, 499, sda2), Line(8, 5, 1, sda5),
               Line(65, 0, 1000, sdaa), Line(8, 16, 2000, sdb),
               Line(8, 17, 0, sdb1), Line(9, 0, 700, md0), BadLine }

Reports == UNION { [1..n -> PartLines] : n \in 0..MaxLines }

InitPart ==
    /\ InitCache
    /\ HAVE_DEVMAPPER = FALSE
    /\ dm = Dm0
    /\ nodes = Fs1
    /\ evms = NoFile
    /\ lvm = NoLvm
    /\ \E r \in Reports : proc = File(r)

NextPart == blkid_probe_all \/ blkid_probe_all_new

SpecPart == InitPart /\ [][NextPart]_vars

----------------------------------------------------------------------------
(* Specification of the device-mapper prober: every list of up to MaxDm    *)
(* mapped devices, each one missing or built on any set of devices         *)

DmLetters == << "x", "y", "z", "w" >>
DmName(k) == << DmLetters[k] >>
DmNo(k) == makedev(253, k - 1)

\* the devices a mapped device may be built on
DmBase == { DmNo(k) : k \in 1..MaxDm } \cup { makedev(9, 0) }

\* the k-th device of the list: missing when it is queried, or there
DmEntries(k) ==
    { DmDev(DmName(k), FALSE, 253, k - 1, {}) }
        \cup { DmDev(DmName(k), TRUE, 253, k - 1, D) : D \in SUBSET DmBase }

DmGraphs ==
    UNION { { g \in [1..n -> UNION { DmEntries(k) : k \in 1..MaxDm }] :
                \A k \in 1..n : g[k] \in DmEntries(k) } : n \in 0..MaxDm }

FsDm == [k \in 1..MaxDm |->
            Node(DevicePath(DEV, mapper \o DmName(k)), DmNo(k))]

InitDm ==
    /\ InitCache
    /\ HAVE_DEVMAPPER = TRUE
    /\ dm \in DmGraphs
    /\ nodes = FsDm
    /\ evms = NoFile
    /\ lvm = NoLvm
    /\ proc = File(<< >>)

NextDm == blkid_probe_all \/ blkid_probe_all_new

SpecDm == InitDm /\ [][NextDm]_vars

----------------------------------------------------------------------------
(* Specification of the LVM prober on a volume without a device line: the  *)
(* callers create and look up records between the passes                   *)

\* one group with one volume, whose file has no "device:" line
LvmNoDevice ==
    [open |-> TRUE,
     vgs |-> << Vg(<<"v", "g">>, TRUE,
                   << Lv(<<"l", "v">>, File(<< OtherLine >>)) >>) >>]

InitLvm ==
    /\ InitCache
    /\ HAVE_DEVMAPPER = FALSE
    /\ dm = Dm0
    /\ nodes \in FsConfigs
    /\ evms = NoFile
    /\ lvm = LvmNoDevice
    /\ proc = File(<< >>)

NextLvm == Call_blkid_get_dev \/ blkid_probe_all \/ blkid_probe_all_new

SpecLvm == InitLvm /\ [][NextLvm]_vars

----------------------------------------------------------------------------
(* Properties *)

\* C1: no two records of the cache have the same name
NamesUnique ==
    \A i, j \in 1..Len(bic_devs) :
        i # j => bic_devs[i].bid_name # bic_devs[j].bid_name

\* a create request found the name already in a cache of several records
C1_Witness ==
    /\ op = "blkid_get_dev"
    /\ BLKID_DEV_CREATE \in args.flags
    /\ calls[1].how = "found"
    /\ Len(bic_devs) >= 2

\* the records of devs2 have the priority they have in devs1
SamePriorities(devs1, devs2) ==
    \A i \in 1..Len(devs1) : \A j \in 1..Len(devs2) :
        devs1[i].bid_name = devs2[j].bid_name
            => devs1[i].bid_pri = devs2[j].bid_pri

\* C2: a probe_one call with only_if_new set, made when a record of the
\* cache already has the device number, changes no record's priority
OnlyIfNewKeepsPriority ==
    [][ ( /\ op' = "probe_one"
          /\ args'.only_if_new
          /\ \E i \in 1..Len(bic_devs) :
                 bic_devs[i].bid_devno = args'.devno )
        => SamePriorities(bic_devs, bic_devs') ]_vars

\* the last operation was a probe pass that the staleness test let through
IsPass == op \in {"blkid_probe_all", "blkid_probe_all_new"}
PassRan == IsPass /\ calls # << >>

\* C3 as claimed: every blkid_probe_all call runs the discovery sources
ProbeAllAlwaysRuns == op = "blkid_probe_all" => calls # << >>

\* C3: blkid_probe_all runs the discovery sources unless the cache is
\* flagged as probed and less than BLKID_PROBE_INTERVAL has elapsed since
\* bic_time; in that case it runs none of them and returns 0
ProbeAllRunsUnlessFresh ==
    [][ op' = "blkid_probe_all"
        => IF BLKID_BIC_FL_PROBED \in bic_flags
              /\ now - bic_time < BLKID_PROBE_INTERVAL
           THEN calls' = << >> /\ ret' = 0 /\ bic_devs' = bic_devs
           ELSE calls' # << >> /\ calls'[1].ev = "read_cache" ]_vars

\* a blkid_probe_all call that the staleness test answered
C3_Witness ==
    /\ op = "blkid_probe_all"
    /\ calls = << >>
    /\ bic_devs # << >>
    /\ now > 0

\* C4: inside the freshness window of a probed cache blkid_probe_all_new
\* returns 0, calls no collaborator and no prober, and leaves the records,
\* the flags and the time stamp as they are
ProbeAllNewFreshIsNoOp ==
    [][ ( /\ op' = "blkid_probe_all_new"
          /\ BLKID_BIC_FL_PROBED \in bic_flags
          /\ now - bic_time < BLKID_PROBE_INTERVAL )
        => /\ ret' = 0
           /\ calls' = << >>
           /\ bic_devs' = bic_devs
           /\ bic_flags' = bic_flags
           /\ bic_time' = bic_time ]_vars

\* blkid_probe_all_new was called one tick after a full probe of a cache
\* whose sources are all there
C4_Witness ==
    /\ op = "blkid_probe_all_new"
    /\ BLKID_BIC_FL_PROBED \in bic_flags
    /\ now - bic_time = BLKID_PROBE_INTERVAL - 1
    /\ proc.open /\ evms.open /\ lvm.open
    /\ calls = << >>

CallsOf(src) == { k \in 1..Len(calls) : calls[k].src = src }

\* C5: a pass that the staleness test let through fails if and only if
\* /proc/partitions cannot be opened; an optional source that is absent
\* makes no probe_one call
ErrorIffNoPartitions ==
    PassRan =>
        /\ (ret # 0) <=> ~proc.open
        /\ (ret # 0) => ret = 0 - BLKID_ERR_PROC
        /\ (~HAVE_DEVMAPPER \/ Len(dm) = 0) => CallsOf("dm") = {}
        /\ ~evms.open => CallsOf("evms") = {}
        /\ ~lvm.open => CallsOf("lvm") = {}

\* a pass without any optional source succeeded on /proc/partitions alone
C5_Witness ==
    /\ PassRan
    /\ Len(dm) = 0 /\ ~evms.open /\ ~lvm.open /\ proc.open
    /\ ret = 0
    /\ CallsOf("part") # {}

\* probe_one reached set_pri with a record for a name that begins with md
MdResolved ==
    /\ op = "probe_one"
    /\ ~strncmp(args.name, MD, 2)
    /\ calls[1].how = "set_pri"
    /\ ret # 0

\* C6 as claimed: a name that begins with md gets BLKID_PRI_MD whatever the
\* priority passed
MdAlwaysRaidPriority ==
    MdResolved => bic_devs[ret].bid_pri = BLKID_PRI_MD

\* C6: a name that begins with md gets BLKID_PRI_MD when the priority
\* passed is zero, and the priority passed when it is not
MdRaidPriorityWhenZero ==
    MdResolved =>
        bic_devs[ret].bid_pri =
            IF args.pri = 0 THEN BLKID_PRI_MD ELSE args.pri

\* probe_one stored BLKID_PRI_MD on the record of md0, called with zero
C6_Witness ==
    /\ MdResolved
    /\ args.pri = 0
    /\ bic_devs[ret].bid_pri = BLKID_PRI_MD

----------------------------------------------------------------------------
(* Properties of the /proc/partitions heuristic *)

Lines == proc.lines
Parsed(i) == part_scan(Lines[i])
NameOf(i) == Lines[i][4].w
SizeOf(i) == Lines[i][3].n
DevOf(i) == makedev(Lines[i][1].n, Lines[i][2].n)
DiskShaped(i) == Parsed(i) /\ ~isdigit(NameOf(i)[Len(NameOf(i))])
PartShaped(i) == Parsed(i) /\ isdigit(NameOf(i)[Len(NameOf(i))])
AllParsed == \A i \in 1..Len(Lines) : Parsed(i)

\* name p is the name d followed by digits
IsPartitionOf(p, d) ==
    /\ Len(p) > Len(d)
    /\ SubSeq(p, 1, Len(d)) = d
    /\ \A k \in (Len(d) + 1)..Len(p) : isdigit(p[k])

\* the probe_one calls of the partition loop for line i
ProbesOf(i) == { k \in CallsOf("part") : calls[k].line = i }

\* line i was handed to probe_one once, under its own name and number
ProbedOnce(i) ==
    /\ Cardinality(ProbesOf(i)) = 1
    /\ \A k \in ProbesOf(i) :
          /\ calls[k].name = NameOf(i)
          /\ calls[k].devno = DevOf(i)
          /\ calls[k].pri = 0

\* C7 as claimed: a disk-shaped name without a partition in the report is
\* handed to probe_one, whatever line follows it (stated for the reports
\* whose lines are all well-formed, where it already fails)
UnpartitionedDiskProbed ==
    PassRan /\ proc.open /\ AllParsed =>
        \A i \in 1..Len(Lines) :
            ( /\ DiskShaped(i)
              /\ ~ \E j \in 1..Len(Lines) :
                     Parsed(j) /\ IsPartitionOf(NameOf(j), NameOf(i)) )
            => \E k \in CallsOf("part") : calls[k].name = NameOf(i)

\* the partition-shaped lines of disk line i that follow it immediately
RECURSIVE RunEnd(_, _)
RunEnd(i, j) ==
    IF j + 1 <= Len(Lines) /\ PartShaped(j + 1)
       /\ IsPartitionOf(NameOf(j + 1), NameOf(i))
    THEN RunEnd(i, j + 1)
    ELSE j

\* C8: in a report of well-formed lines, the partition lines that follow
\* their disk line are handed to probe_one once each when their size is
\* greater than 1, in the order of the report, and the disk line is not
PartitionsProbedDiskSkipped ==
    PassRan /\ proc.open /\ AllParsed =>
        \A i \in 1..Len(Lines) :
            (DiskShaped(i) /\ RunEnd(i, i) > i) =>
                /\ ProbesOf(i) = {}
                /\ \A j \in (i + 1)..RunEnd(i, i) :
                      /\ SizeOf(j) > 1 => ProbedOnce(j)
                      /\ \A j2 \in (j + 1)..RunEnd(i, i) :
                            \A k \in ProbesOf(j), k2 \in ProbesOf(j2) :
                                k < k2

\* the pass read sda, sda1, sda2 and probed the two partitions
C8_Witness ==
    /\ PassRan /\ proc.open /\ AllParsed
    /\ Len(Lines) = 3
    /\ NameOf(1) = sda /\ NameOf(2) = sda1 /\ NameOf(3) = sda2
    /\ ProbesOf(1) = {} /\ ProbedOnce(2) /\ ProbedOnce(3)

\* C9 as claimed: a partition-shaped line is handed to probe_one if and
\* only if its size is not 1
PartitionProbedUnlessSizeOne ==
    PassRan /\ proc.open =>
        \A i \in 1..Len(Lines) :
            PartShaped(i) => (ProbesOf(i) # {} <=> SizeOf(i) # 1)

\* C9: a partition-shaped line is handed to probe_one, with priority zero,
\* if and only if its size is greater than 1: neither size 1 nor size 0 is
PartitionProbedIffSizeOverOne ==
    PassRan /\ proc.open =>
        \A i \in 1..Len(Lines) :
            PartShaped(i) =>
                IF SizeOf(i) > 1 THEN ProbedOnce(i) ELSE ProbesOf(i) = {}

\* the pass read a partition of size 0, one of size 1 and one of size 500
C9_Witness ==
    /\ PassRan /\ proc.open
    /\ \E i, j, k \in 1..Len(Lines) :
          /\ PartShaped(i) /\ SizeOf(i) = 0 /\ ProbesOf(i) = {}
          /\ PartShaped(j) /\ SizeOf(j) = 1 /\ ProbesOf(j) = {}
          /\ PartShaped(k) /\ SizeOf(k) > 1 /\ ProbedOnce(k)

\* C10: in a report of well-formed lines, a disk-shaped line that is the
\* last line, or whose next line is a disk-shaped name that does not begin
\* with it, is handed to probe_one once, under its own name and number
LoneDiskProbedOnce ==
    PassRan /\ proc.open /\ AllParsed =>
        \A i \in 1..Len(Lines) :
            ( /\ DiskShaped(i)
              /\ \/ i = Len(Lines)
                 \/ /\ DiskShaped(i + 1)
                    /\ Take(NameOf(i + 1), Len(NameOf(i))) # NameOf(i) )
            => ProbedOnce(i)

\* the pass read sda, sdb and probed both as whole disks
C10_Witness ==
    /\ PassRan /\ proc.open /\ AllParsed
    /\ Len(Lines) = 2
    /\ NameOf(1) = sda /\ NameOf(2) = sdb
    /\ ProbedOnce(1) /\ ProbedOnce(2)

\* the (name, device number) pairs handed to probe_one by the partition
\* loop, in order
PartEvent(e) == e.src = "part"
PartPairs(log) ==
    [k \in 1..Len(SelectSeq(log, PartEvent)) |->
        << SelectSeq(log, PartEvent)[k].name,
           SelectSeq(log, PartEvent)[k].devno >>]

\* the pairs the loop hands over when it is given the lines of a report
PartPairsOn(lines) ==
    PartPairs(part_end(part_loop_on(lines,
                                    LoopInit([c |-> Cache, log |-> << >>]),
                                    1, FALSE, TRUE),
                       FALSE, TRUE).log)

\* C11 as claimed: the lines that sscanf rejects have no effect: the pairs
\* handed to probe_one are those of the report without these lines
MalformedLinesNoEffect ==
    PassRan /\ proc.open =>
        PartPairs(calls) = PartPairsOn(SelectSeq(Lines, part_scan))

----------------------------------------------------------------------------
(* Properties of the flags and of the entry points *)

\* C12 as claimed: after a blkid_get_dev call that appended a record, and
\* after a probe_one call that changed the priority of a record, the
\* BLKID_BIC_FL_CHANGED flag of the cache is set
ChangedFlagFollowsMutation ==
    [][ /\ ( op' = "blkid_get_dev" /\ Len(bic_devs') > Len(bic_devs) )
            => BLKID_BIC_FL_CHANGED \in bic_flags'
        /\ ( op' = "probe_one" /\ ~SamePriorities(bic_devs, bic_devs') )
            => BLKID_BIC_FL_CHANGED \in bic_flags' ]_vars

\* C13: without BLKID_DEV_VERIFY, a blkid_get_dev call with BLKID_DEV_CREATE
\* that follows one with the same name returns the same record and leaves
\* the list as it is, the name being there once; a call without
\* BLKID_DEV_CREATE for a name that is not in the cache returns no record
\* and leaves the list and the BLKID_BIC_FL_CHANGED flag as they are
FindOrCreateIdempotent ==
    [][ /\ ( /\ op = "blkid_get_dev" /\ op' = "blkid_get_dev"
             /\ args.flags = {BLKID_DEV_CREATE}
             /\ args'.flags = {BLKID_DEV_CREATE}
             /\ args'.name = args.name )
            => /\ ret' = ret /\ ret' # 0
               /\ bic_devs' = bic_devs
               /\ bic_devs'[ret'].bid_name = args'.name
               /\ Cardinality({ i \in 1..Len(bic_devs') :
                                  bic_devs'[i].bid_name = args'.name }) = 1
        /\ ( /\ op' = "blkid_get_dev"
             /\ args'.flags = {}
             /\ \A i \in 1..Len(bic_devs) :
                    bic_devs[i].bid_name # args'.name )
            => /\ ret' = 0
               /\ bic_devs' = bic_devs
               /\ bic_flags' = bic_flags ]_vars

\* a create request without verification got the record that an earlier
\* one had made, in a cache that holds another record as well
C13_Witness ==
    /\ op = "blkid_get_dev"
    /\ args.flags = {BLKID_DEV_CREATE}
    /\ calls[1].how = "found"
    /\ ret # 0 /\ bic_devs[ret].bid_name = args.name
    /\ Len(bic_devs) >= 2
    /\ bic_devs[ret].bid_devno = 0

\* C14: blkid_probe_all_new leaves bic_time and the BLKID_BIC_FL_PROBED
\* flag as they are, whether the staleness test answered it, the pass
\* completed or the pass failed
ProbeAllNewKeepsStamp ==
    [][ op' = "blkid_probe_all_new"
        => /\ bic_time' = bic_time
           /\ BLKID_BIC_FL_PROBED \in bic_flags'
                  <=> BLKID_BIC_FL_PROBED \in bic_flags ]_vars

\* blkid_probe_all_new ran the sources of a cache that was never fully
\* probed, after the clock had advanced, and created records
C14_Witness ==
    /\ op = "blkid_probe_all_new"
    /\ calls # << >>
    /\ ret = 0
    /\ bic_devs # << >>
    /\ BLKID_BIC_FL_PROBED \notin bic_flags
    /\ now > bic_time

----------------------------------------------------------------------------
(* Properties of the device-mapper prober *)

\* no listed device is built on dev
NoListedDependsOn(dev) == \A i \in 1..Len(dm) : dev \notin dm[i].deps

\* the listed devices that are there and that no listed device is built on
DmLeaves ==
    { i \in 1..Len(dm) :
        dm[i].exists /\ NoListedDependsOn(makedev(dm[i].major, dm[i].minor)) }

\* C15: dm_device_is_leaf(dev) holds if and only if no listed device has dev
\* among its dependencies, and dm_probe_all hands to probe_one the listed
\* devices that exist and are leaves, once each, in the order of the list,
\* under mapper/<name> and with BLKID_PRI_DM
DmLeavesProbed ==
    /\ \A dev \in DmBase : dm_device_is_leaf(dev) <=> NoListedDependsOn(dev)
    /\ PassRan =>
          /\ { calls[k].line : k \in CallsOf("dm") } = DmLeaves
          /\ \A k \in CallsOf("dm") :
                /\ calls[k].name = mapper \o dm[calls[k].line].name
                /\ calls[k].devno = makedev(dm[calls[k].line].major,
                                           dm[calls[k].line].minor)
                /\ calls[k].pri = BLKID_PRI_DM
                /\ \A k2 \in CallsOf("dm") :
                      k < k2 => calls[k].line < calls[k2].line

\* x is among the dependencies of y and y among nobody's: the pass handed
\* y to probe_one and not x
C15_Witness ==
    /\ PassRan
    /\ Len(dm) = 2
    /\ dm[1].exists /\ dm[2].exists
    /\ DmNo(1) \in dm[2].deps
    /\ NoListedDependsOn(DmNo(2))
    /\ ~dm_device_is_leaf(DmNo(1)) /\ dm_device_is_leaf(DmNo(2))
    /\ { calls[k].name : k \in CallsOf("dm") } = { mapper \o DmName(2) }

----------------------------------------------------------------------------
(* Properties of the passes *)

StampKept ==
    /\ bic_time' = bic_time
    /\ BLKID_BIC_FL_PROBED \in bic_flags' <=> BLKID_BIC_FL_PROBED \in bic_flags

\* C16 as claimed: a blkid_probe_all call whose pass failed leaves bic_time
\* and the BLKID_BIC_FL_PROBED flag as they were
FailedPassNotStamped ==
    [][ (op' = "blkid_probe_all" /\ ret' # 0) => StampKept ]_vars

\* C17 as claimed: bic_time advances only in a blkid_probe_all call that
\* ran the discovery sources
StampOnlyWhenSourcesRan ==
    [][ (op' = "blkid_probe_all" /\ calls' = << >>)
        => bic_time' = bic_time ]_vars

\* the place of an event in the order of lines 470-533
Step(e) ==
    CASE e.ev = "read_cache" -> 0
      [] e.ev = "flush_cache" -> 5
      [] e.src = "dm" -> 1
      [] e.src = "evms" -> 2
      [] e.src = "lvm" -> 3
      [] e.src = "part" -> 4

Events(ev) == { k \in 1..Len(calls) : calls[k].ev = ev }

\* C18: a pass that the staleness test let through calls blkid_read_cache
\* first, then makes the probe_one calls of the device-mapper prober (none
\* without HAVE_DEVMAPPER), of the EVMS prober, of the LVM prober and of the
\* partition loop in that order; when it completes it calls
\* blkid_flush_cache once, after all of them; when it fails on
\* /proc/partitions it does not call blkid_flush_cache
PassInOrder ==
    PassRan =>
        /\ Events("read_cache") = {1}
        /\ \A k, k2 \in 1..Len(calls) :
              k < k2 => Step(calls[k]) <= Step(calls[k2])
        /\ ~HAVE_DEVMAPPER => CallsOf("dm") = {}
        /\ ret = 0 => Events("flush_cache") = {Len(calls)}
        /\ ret # 0 => Events("flush_cache") = {}

\* a pass with every source at hand made probe_one calls for each of them
\* and completed
C18_Witness ==
    /\ PassRan
    /\ ret = 0
    /\ CallsOf("dm") # {} /\ CallsOf("evms") # {}
    /\ CallsOf("lvm") # {} /\ CallsOf("part") # {}

\* the k-th call of the pass stored a reserved priority on a record of its
\* device number, and no later call of the same kind was made for it
StoredReserved(k) ==
    /\ calls[k].src \in {"dm", "evms", "lvm"}
    /\ calls[k].how = "set_pri"
    /\ calls[k].pri # 0
    /\ \A k2 \in (k + 1)..Len(calls) :
          calls[k2].devno = calls[k].devno => calls[k2].src = "part"

\* C19 as claimed: in a blkid_probe_all pass in which blkid_verify returns
\* the records unchanged, a record whose device number got a reserved
\* priority from the device-mapper, EVMS or LVM prober and was then handed
\* over with priority zero by the partition loop has the reserved priority
\* at the end of the pass
ReservedPriorityKept ==
    (op = "blkid_probe_all" /\ PassRan /\ args.fresh) =>
        \A k \in 1..Len(calls) : \A k2 \in CallsOf("part") :
            ( /\ k < k2
              /\ StoredReserved(k)
              /\ calls[k2].devno = calls[k].devno )
            => \A i \in 1..Len(bic_devs) :
                   bic_devs[i].bid_devno = calls[k].devno
                       => bic_devs[i].bid_pri = calls[k].pri

\* C20 as claimed: a pass over a volume group whose only volume has no
\* device line, every other source being empty, changes no record of the
\* cache: none is created, verified again or given another priority, since
\* no probe_one call is made for the volume
ZeroDevnoVolumeSkipped ==
    [][ ( /\ op' \in {"blkid_probe_all", "blkid_probe_all_new"}
          /\ lvm = LvmNoDevice
          /\ ~evms.open /\ Len(dm) = 0 /\ proc = File(<< >>) )
        => bic_devs' = bic_devs ]_vars

====
